---- MODULE Spec2Model ----
(***************************************************************************)
(* cli/src/semdep/parsers/yarn.py: the yarn.lock parsers (version 1 and    *)
(* version 2/3) and parse_yarn, which turns a lockfile and an optional     *)
(* package.json into a list of FoundDependency records.                    *)
(*                                                                         *)
(* Text is a sequence of one-character strings.  A parser is an operator   *)
(* P(s, i): it runs on text s from index i (1-based) and yields            *)
(* [ok, pos, val], pos being the index after what it consumed.             *)
(* Python's None is the empty tuple; Optional[x] is <<>> or <<x>>.         *)
(***************************************************************************)
EXTENDS Naturals, Sequences, FiniteSets

VARIABLES
    lockfile_text,   \* parse_yarn: the text read from lockfile_path
    manifest,        \* the package.json behind manifest_path (or no path)
    pc,              \* position in parse_yarn
    manifest_deps,   \* Optional[Set[(name, constraint)]]
    yarn_version,    \* 0 until chosen, then 1 or 2
    tried,           \* the document grammars run on lockfile_text
    parse_failed,    \* whether the chosen grammar failed on the text
    deps,            \* Optional[List[(line_number, (sources, fields))]]
    idx,             \* the for loop's index into deps
    output,          \* the list of FoundDependency built so far
    g_kind,          \* grammar harness: which sub-parser is applied
    g_dialect,       \* grammar harness: 1 or 2
    g_input,         \* grammar harness: the structured input
    g_text,          \* grammar harness: the input's text
    g_result         \* grammar harness: <<>> before, <<result>> after

vars == <<lockfile_text, manifest, pc, manifest_deps, yarn_version, tried,
          parse_failed, deps, idx, output,
          g_kind, g_dialect, g_input, g_text, g_result>>

main_vars == <<lockfile_text, manifest, pc, manifest_deps, yarn_version, tried,
               parse_failed, deps, idx, output>>

grammar_vars == <<g_kind, g_dialect, g_input, g_text, g_result>>

None == <<>>

Some(x) == <<x>>

Min(S) == CHOOSE x \in S : \A y \in S : x <= y

Max(S) == CHOOSE x \in S : \A y \in S : y <= x

StartsWith(s, p) == Len(p) <= Len(s) /\ SubSeq(s, 1, Len(p)) = p

(***************************************************************************)
(* Parser combinators (semdep.external.parsy and semdep.parsers.util).     *)
(* A result is passed on as an argument, as parsy's bind passes it to its  *)
(* lambda.                                                                 *)
(***************************************************************************)
Fail == [ok |-> FALSE, pos |-> 0, val |-> <<>>]

Ok(p, v) == [ok |-> TRUE, pos |-> p, val |-> v]

\* p.bind(f): f on p's result, or p's failure.
bind(r, K(_)) == IF r.ok THEN K(r) ELSE Fail

\* p | q: p's result, or q tried at the same place.
alt(r, other) == IF r.ok THEN r ELSE other

\* p.optional(default): p's result, or default without consuming.
optional(r, i, default) == IF r.ok THEN r ELSE Ok(i, default)

\* parsy string(lit): the literal, or failure.
string(lit, s, i) ==
    IF i + Len(lit) - 1 <= Len(s) /\ SubSeq(s, i, i + Len(lit) - 1) = lit
    THEN Ok(i + Len(lit), lit)
    ELSE Fail

\* The least index of a non-empty set of indexes, or otherwise.
First(hits, otherwise) == IF hits = {} THEN otherwise ELSE Min(hits)

\* The first index at or after i holding a character of chars; Len(s)+1 if none.
ScanEnd(chars, s, i) == First({j \in i..Len(s) : s[j] \in chars}, Len(s) + 1)

Span(s, i, j) == IF j > i THEN Ok(j, SubSeq(s, i, j - 1)) ELSE Fail

\* util.not_any(*chars): one or more characters, none of them in chars.
not_any(chars, s, i) == Span(s, i, ScanEnd(chars, s, i))

\* util.upto(*chars, consume_other): the text before the next character of
\* chars, which must exist (end of input fails); consume_other skips it.
upto(chars, consume_other, s, i) ==
    bind(not_any(chars, s, i),
         LAMBDA r : IF r.pos > Len(s) THEN Fail
                    ELSE Ok(IF consume_other THEN r.pos + 1 ELSE r.pos, r.val))

\* util.consume_line: the rest of a (non-empty) line, producing None.
consume_line(s, i) == bind(not_any({"\n"}, s, i), LAMBDA r : Ok(r.pos, None))

\* string(" ").many(): the run of spaces starting at i; val is their number.
many_spaces(s, i) ==
    bind(Ok(First({j \in i..Len(s) : s[j] # " "}, Len(s) + 1), None),
         LAMBDA r : Ok(r.pos, r.pos - i))

\* util.quoted(p): string('"') >> p << string('"').
quoted(P(_, _), s, i) ==
    bind(string(<<"\"">>, s, i), LAMBDA open :
    bind(P(s, open.pos), LAMBDA r :
    bind(string(<<"\"">>, s, r.pos), LAMBDA close : Ok(close.pos, r.val))))

\* (sep >> p) repeated until it fails; acc is what was parsed up to i.
RECURSIVE sep_by_more(_, _, _, _, _)
sep_by_more(P(_, _), sep, s, i, acc) ==
    alt(bind(string(sep, s, i), LAMBDA d :
        bind(P(s, d.pos), LAMBDA r :
            sep_by_more(P, sep, s, r.pos, Append(acc, r.val)))),
        Ok(i, acc))

\* parsy p.sep_by(sep), min=0: p, then (sep >> p) repeated; if the first p
\* fails, the empty list without consuming.
sep_by(P(_, _), sep, s, i) ==
    alt(bind(P(s, i), LAMBDA r : sep_by_more(P, sep, s, r.pos, <<r.val>>)),
        Ok(i, <<>>))

\* util.mark_line(p): p's result paired with the 1-based line it starts on.
mark_line(P(_, _), s, i) ==
    bind(P(s, i), LAMBDA r :
        Ok(r.pos, <<Cardinality({j \in 1..(i - 1) : s[j] = "\n"}) + 1, r.val>>))

\* The part of v between its first and its last index of keep.
Between(v, keep) == IF keep = {} THEN <<>> ELSE SubSeq(v, Min(keep), Max(keep))

\* Python str.strip(c): every leading and trailing c removed.
strip(v, c) == Between(v, {j \in 1..Len(v) : v[j] # c})

\* A dict in which the first occurrence of a key would be the one kept.
to_fields_first(xs) ==
    [key \in {xs[k][1] : k \in {j \in 1..Len(xs) : xs[j] # None}} |->
        xs[Min({k \in 1..Len(xs) : xs[k] # None /\ xs[k][1] = key})][2]]

\* {x[0]: x[1] for x in xs if x}: later keys overwrite earlier ones.
to_fields(xs) ==
    [key \in {xs[k][1] : k \in {j \in 1..Len(xs) : xs[j] # None}} |->
        xs[Max({k \in 1..Len(xs) : xs[k] # None /\ xs[k][1] = key})][2]]

(***************************************************************************)
(* Yarn version 1 grammar.                                                 *)
(***************************************************************************)
source1(is_quoted, s, i) ==
    bind(optional(string(<<"@">>, s, i), i, <<>>), LAMBDA at :
    bind(upto({"@"}, TRUE, s, at.pos), LAMBDA name :
    bind(upto({"\""} \cup (IF is_quoted THEN {} ELSE {":", ","}), FALSE, s, name.pos),
         LAMBDA c : Ok(c.pos, <<at.val \o name.val, c.val>>))))

source1_quoted(s, i) == source1(TRUE, s, i)

\* quoted(source1(True)) | source1(False)
one_source1(s, i) == alt(quoted(source1_quoted, s, i), source1(FALSE, s, i))

multi_source1(s, i) == sep_by(one_source1, <<",", " ">>, s, i)

key_value1(s, i) ==
    bind(many_spaces(s, i), LAMBDA spaces :
        IF spaces.val # 2 THEN consume_line(s, spaces.pos)
        ELSE bind(upto({" ", ":"}, FALSE, s, spaces.pos), LAMBDA key :
                 IF s[key.pos] = ":" THEN consume_line(s, key.pos)
                 ELSE bind(string(<<" ">>, s, key.pos), LAMBDA b :
                      bind(upto({"\n"}, FALSE, s, b.pos), LAMBDA value :
                          Ok(value.pos, <<key.val, strip(value.val, "\"")>>)))))

\* pair(multi_source1 << string(":\n"), key_value1.sep_by(string("\n")).map(dict))
dep1_body(s, i) ==
    bind(multi_source1(s, i), LAMBDA srcs :
    bind(string(<<":", "\n">>, s, srcs.pos), LAMBDA colon :
    bind(sep_by(key_value1, <<"\n">>, s, colon.pos), LAMBDA kvs :
        Ok(kvs.pos, <<srcs.val, to_fields(kvs.val)>>))))

yarn_dep1(s, i) == mark_line(dep1_body, s, i)

YARN1_PREFIX ==
    <<"#", " ", "T", "H", "I", "S", " ", "I", "S", " ", "A", "N", " ", "A", "U", "T", "O",
      "G", "E", "N", "E", "R", "A", "T", "E", "D", " ", "F", "I", "L", "E", ".", " ", "D",
      "O", " ", "N", "O", "T", " ", "E", "D", "I", "T", " ", "T", "H", "I", "S", " ", "F",
      "I", "L", "E", " ", "D", "I", "R", "E", "C", "T", "L", "Y", ".", "\n", "#", " ",
      "y", "a", "r", "n", " ", "l", "o", "c", "k", "f", "i", "l", "e", " ", "v", "1",
      "\n", "\n">>

yarn1(s, i) ==
    bind(string(YARN1_PREFIX, s, i), LAMBDA banner :
    bind(optional(string(<<"\n">>, s, banner.pos), banner.pos, None), LAMBDA lead :
    bind(sep_by(yarn_dep1, <<"\n", "\n">>, s, lead.pos), LAMBDA blocks :
    bind(optional(string(<<"\n">>, s, blocks.pos), blocks.pos, None), LAMBDA trail :
        Ok(trail.pos, blocks.val)))))

(***************************************************************************)
(* Yarn version 2/3 grammar.                                               *)
(***************************************************************************)
\* Variant: any protocol tag (the text through the first colon) is removed.
remove_npm_prefix_any(c) ==
    IF ":" \in {c[j] : j \in 1..Len(c)}
    THEN SubSeq(c, Min({j \in 1..Len(c) : c[j] = ":"}) + 1, Len(c))
    ELSE c

remove_npm_prefix(c) ==
    IF StartsWith(c, <<"n", "p", "m", ":">>) THEN SubSeq(c, 5, Len(c)) ELSE c

source2(s, i) ==
    bind(optional(string(<<"@">>, s, i), i, <<>>), LAMBDA at :
    bind(upto({"@"}, TRUE, s, at.pos), LAMBDA name :
    bind(upto({"\"", ","}, FALSE, s, name.pos), LAMBDA c :
        Ok(c.pos, <<at.val \o name.val, remove_npm_prefix(c.val)>>))))

source2_list(s, i) == sep_by(source2, <<",", " ">>, s, i)

multi_source2(s, i) == quoted(source2_list, s, i)

\* peek(any_char): the next character, not consumed; fails at the end.
peek_any_char(s, i) == IF i <= Len(s) THEN Ok(i, s[i]) ELSE Fail

\* Variant: the value is returned as written, quotes included.
key_value2_unstripped(s, i) ==
    bind(many_spaces(s, i), LAMBDA spaces :
        IF spaces.val # 2 THEN consume_line(s, spaces.pos)
        ELSE bind(upto({":"}, FALSE, s, spaces.pos), LAMBDA key :
             bind(string(<<":">>, s, key.pos), LAMBDA colon :
             bind(peek_any_char(s, colon.pos), LAMBDA next :
                 IF next.val = "\n" THEN Ok(next.pos, None)
                 ELSE bind(string(<<" ">>, s, next.pos), LAMBDA b :
                      bind(upto({"\n"}, FALSE, s, b.pos), LAMBDA value :
                          Ok(value.pos, <<key.val, value.val>>)))))))

key_value2(s, i) ==
    bind(many_spaces(s, i), LAMBDA spaces :
        IF spaces.val # 2 THEN consume_line(s, spaces.pos)
        ELSE bind(upto({":"}, FALSE, s, spaces.pos), LAMBDA key :
             bind(string(<<":">>, s, key.pos), LAMBDA colon :
             bind(peek_any_char(s, colon.pos), LAMBDA next :
                 IF next.val = "\n" THEN Ok(next.pos, None)
                 ELSE bind(string(<<" ">>, s, next.pos), LAMBDA b :
                      bind(upto({"\n"}, FALSE, s, b.pos), LAMBDA value :
                          Ok(value.pos, <<key.val, strip(value.val, "\"")>>)))))))

dep2_body(s, i) ==
    bind(multi_source2(s, i), LAMBDA srcs :
    bind(string(<<":", "\n">>, s, srcs.pos), LAMBDA colon :
    bind(sep_by(key_value2, <<"\n">>, s, colon.pos), LAMBDA kvs :
        Ok(kvs.pos, <<srcs.val, to_fields(kvs.val)>>))))

yarn_dep2(s, i) == mark_line(dep2_body, s, i)

YARN2_PREFIX ==
    <<"#", " ", "T", "h", "i", "s", " ", "f", "i", "l", "e", " ", "i", "s", " ", "g", "e",
      "n", "e", "r", "a", "t", "e", "d", " ", "b", "y", " ", "r", "u", "n", "n", "i", "n",
      "g", " ", "\"", "y", "a", "r", "n", " ", "i", "n", "s", "t", "a", "l", "l", "\"",
      " ", "i", "n", "s", "i", "d", "e", " ", "y", "o", "u", "r", " ", "p", "r", "o", "j",
      "e", "c", "t", ".", "\n", "#", " ", "M", "a", "n", "u", "a", "l", " ", "c", "h",
      "a", "n", "g", "e", "s", " ", "m", "i", "g", "h", "t", " ", "b", "e", " ", "l", "o",
      "s", "t", " ", "-", " ", "p", "r", "o", "c", "e", "e", "d", " ", "w", "i", "t", "h",
      " ", "c", "a", "u", "t", "i", "o", "n", "!", "\n">>

Digits == {"0", "1", "2", "3", "4", "5", "6", "7", "8", "9"}

\* \d+ : a non-empty run of digits.
digits1(s, i) ==
    bind(Ok(First({j \in i..Len(s) : s[j] \notin Digits}, Len(s) + 1), None),
         LAMBDA r : IF r.pos > i THEN r ELSE Fail)

\* regex("\n__metadata:\n  version: \d+\n  cacheKey: \d+\n")
YARN2_METADATA_REGEX(s, i) ==
    bind(string(<<"\n", "_", "_", "m", "e", "t", "a", "d", "a", "t", "a", ":", "\n", " ", " ", "v", "e",
      "r", "s", "i", "o", "n", ":", " ">>, s, i), LAMBDA a :
    bind(digits1(s, a.pos), LAMBDA d1 :
    bind(string(<<"\n", " ", " ", "c", "a", "c", "h", "e", "K", "e", "y", ":", " ">>, s, d1.pos), LAMBDA b :
    bind(digits1(s, b.pos), LAMBDA d2 : string(<<"\n">>, s, d2.pos)))))

yarn2(s, i) ==
    bind(string(YARN2_PREFIX, s, i), LAMBDA banner :
    bind(optional(YARN2_METADATA_REGEX(s, banner.pos), banner.pos, None), LAMBDA meta :
    bind(optional(string(<<"\n">>, s, meta.pos), meta.pos, None), LAMBDA lead :
    bind(sep_by(yarn_dep2, <<"\n", "\n">>, s, lead.pos), LAMBDA blocks :
    bind(optional(string(<<"\n">>, s, blocks.pos), blocks.pos, None), LAMBDA trail :
        Ok(trail.pos, blocks.val))))))

(***************************************************************************)
(* Helpers of semdep.parsers.util used by parse_yarn.                      *)
(***************************************************************************)
Range(s) == {s[k] : k \in 1..Len(s)}

\* Python s.split(c)
RECURSIVE split(_, _)
split_at(s, c, j) ==
    IF j > Len(s) THEN <<s>>
    ELSE <<SubSeq(s, 1, j - 1)>> \o split(SubSeq(s, j + 1, Len(s)), c)

split(s, c) == split_at(s, c, ScanEnd({c}, s, 1))

\* Python c.join(parts)
RECURSIVE join(_, _)
join(parts, c) ==
    IF parts = <<>> THEN <<>>
    ELSE IF Len(parts) = 1 THEN parts[1]
    ELSE parts[1] \o <<c>> \o join(Tail(parts), c)

\* dict.get(key): Optional
dict_get(fields, key) ==
    IF key \in DOMAIN fields THEN Some(fields[key]) ELSE None

EmptyDict == [k \in {} |-> <<>>]

B64Alphabet ==
    <<"A", "B", "C", "D", "E", "F", "G", "H", "I", "J", "K", "L", "M", "N", "O", "P", "Q",
      "R", "S", "T", "U", "V", "W", "X", "Y", "Z", "a", "b", "c", "d", "e", "f", "g", "h",
      "i", "j", "k", "l", "m", "n", "o", "p", "q", "r", "s", "t", "u", "v", "w", "x", "y",
      "z", "0", "1", "2", "3", "4", "5", "6", "7", "8", "9", "+", "/">>

HexDigits == <<"0", "1", "2", "3", "4", "5", "6", "7", "8", "9", "a", "b", "c", "d", "e", "f">>

Pow2(n) == CASE n = 0 -> 1 [] n = 1 -> 2 [] n = 2 -> 4 [] n = 3 -> 8
             [] n = 4 -> 16 [] n = 5 -> 32

\* base64.b16encode(base64.b64decode(rest)).lower(): rest's 6-bit groups
\* (up to the '=' padding) regrouped into whole bytes, two hex digits each.
b64_to_hex(rest) ==
    LET data == SubSeq(rest, 1, ScanEnd({"="}, rest, 1) - 1)
        sextet(k) == (CHOOSE v \in 1..64 : B64Alphabet[v] = data[k]) - 1
        bit(b) == (sextet((b \div 6) + 1) \div Pow2(5 - (b % 6))) % 2
        nibble(h) == 8 * bit(4 * h) + 4 * bit(4 * h + 1)
                     + 2 * bit(4 * h + 2) + bit(4 * h + 3)
        nbytes == (6 * Len(data)) \div 8
    IN  [h \in 1..(2 * nbytes) |-> HexDigits[nibble(h - 1) + 1]]

\* util.extract_npm_lockfile_hash: "alg-base64 alg-base64 ..." decoded into
\* a map from algorithm to the list of its hex digests; None gives {}.
extract_npm_lockfile_hash(integrity) ==
    IF integrity = None THEN EmptyDict
    ELSE LET parts == split(integrity[1], " ")
             alg(k) == split(parts[k], "-")[1]
             rest(k) == SubSeq(parts[k], Len(alg(k)) + 2, Len(parts[k]))
             mine(a) == {k \in 1..Len(parts) : alg(k) = a}
             nth(a, n) == CHOOSE k \in mine(a) :
                              Cardinality({j \in mine(a) : j <= k}) = n
         IN  [a \in {alg(k) : k \in 1..Len(parts)} |->
                 [n \in 1..Cardinality(mine(a)) |-> b64_to_hex(rest(nth(a, n)))]]

\* util.transitivity(manifest_deps, dep_sources)
transitivity(mdeps, sources) ==
    IF mdeps = None THEN "Unknown"
    ELSE IF \E k \in 1..Len(sources) : sources[k] \in mdeps[1] THEN "Direct"
    ELSE "Transitive"

\* util.safe_path_parse(path, parser, name): parser.parse(text) must consume
\* the whole text; a parse error is logged and gives None.
parse_all(r, text) == IF r.ok /\ r.pos = Len(text) + 1 THEN Some(r.val) ELSE None

safe_path_parse(version, text) ==
    parse_all(IF version = 1 THEN yarn1(text, 1) ELSE yarn2(text, 1), text)

(***************************************************************************)
(* package.json.  A JSON value is <<"dict", items>> (items: a sequence of  *)
(* <<key, value>>), <<"list", values>>, <<"str", text>> or <<"num", n>>.   *)
(* manifest is <<"nopath">>, <<"unparsable">> or <<"json", value>>.        *)
(***************************************************************************)
\* safe_path_parse(manifest_path, json_doc, "jsondoc")
safe_json_parse(m) == IF m[1] = "json" THEN Some(m[2]) ELSE None

\* JSON.as_str(): the value as it is; a number stays a number (here a token
\* equal to no string).
as_str(j) == IF j[1] = "str" THEN j[2] ELSE <<j[1]>>

W_dependencies == <<"d", "e", "p", "e", "n", "d", "e", "n", "c", "i", "e", "s">>

\* dict.get("dependencies") on the items of a JSON object
json_get(items, key) ==
    LET at == {k \in 1..Len(items) : items[k][1] = key}
    IN  IF at = {} THEN None ELSE Some(items[Max(at)][2])

\* {(x[0], x[1].as_str()) for x in deps.as_dict().items()}
constraint_set(items) ==
    {<<items[k][1], as_str(items[k][2])>> : k \in 1..Len(items)}

\* Variant: a manifest without dependencies gives None, like no manifest.
deps_to_set_none(d) ==
    IF d = None THEN [raised |-> FALSE, val |-> None]
    ELSE IF d[1][1] # "dict" THEN [raised |-> TRUE, val |-> None]
    ELSE [raised |-> FALSE, val |-> Some(constraint_set(d[1][2]))]

\* The part of get_manifest_deps after `deps = json.get("dependencies")`.
deps_to_set(d) ==
    IF d = None THEN [raised |-> FALSE, val |-> Some({})]
    ELSE IF d[1][1] # "dict" THEN [raised |-> TRUE, val |-> None]
    ELSE [raised |-> FALSE, val |-> Some(constraint_set(d[1][2]))]

\* [raised, val]: raised when .get or .items() is called on a value that is
\* no dict (AttributeError); otherwise val is the Optional set.
get_manifest_deps(m) ==
    IF m[1] = "nopath" THEN [raised |-> FALSE, val |-> None]
    ELSE IF safe_json_parse(m) = None THEN [raised |-> FALSE, val |-> None]
    ELSE IF m[2][1] # "dict" THEN [raised |-> TRUE, val |-> None]
    ELSE deps_to_set(json_get(m[2][2], W_dependencies))

\* Variant: everything from the first '#' on is removed.
remove_first_octothorpe(s) ==
    IF s = None THEN None ELSE Some(split(s[1], "#")[1])

remove_trailing_octothorpe(s) ==
    IF s = None THEN None
    ELSE IF "#" \in Range(s[1])
         THEN LET parts == split(s[1], "#")
              IN  Some(join(SubSeq(parts, 1, Len(parts) - 1), "#"))
         ELSE Some(s[1])

(***************************************************************************)
(* parse_yarn                                                              *)
(***************************************************************************)
W_version == <<"v", "e", "r", "s", "i", "o", "n">>

W_integrity == <<"i", "n", "t", "e", "g", "r", "i", "t", "y">>

W_checksum == <<"c", "h", "e", "c", "k", "s", "u", "m">>

W_resolved == <<"r", "e", "s", "o", "l", "v", "e", "d">>

W_sha512 == <<"s", "h", "a", "5", "1", "2">>

\* Variant: the first two banner lines decide, the blank line is not needed.
choose_version_two_lines(text) ==
    IF StartsWith(text, SubSeq(YARN1_PREFIX, 1, Len(YARN1_PREFIX) - 1)) THEN 1 ELSE 2

\* yarn_version = 1 if lockfile_text.startswith(YARN1_PREFIX) else 2
choose_version(text) == IF StartsWith(text, YARN1_PREFIX) THEN 1 ELSE 2

\* What parser.parse_partial would give: the blocks read before the grammar
\* stopped, wherever it stopped.
parse_some(r) == IF r.ok THEN Some(r.val) ELSE None

\* Variant: the text need not be consumed to its end.
parsed_deps_partial(version, text) ==
    parse_some(IF version = 1 THEN yarn1(text, 1) ELSE yarn2(text, 1))

\* deps = safe_path_parse(lockfile_path, parser, parser_name)
parsed_deps(version, text) == safe_path_parse(version, text)

\* `not deps`: None or the empty list
Falsy(d) == d = None \/ d[1] = <<>>

allowed_hashes(version, fields) ==
    IF version = 1
    THEN extract_npm_lockfile_hash(dict_get(fields, W_integrity))
    ELSE LET checksum == dict_get(fields, W_checksum)
         IN  IF checksum # None /\ checksum[1] # <<>>
             THEN [a \in {W_sha512} |-> <<checksum[1]>>]
             ELSE EmptyDict

\* Variant: only the first source is looked up in the manifest.
found_dependency_first_source(version, mdeps, line_number, sources, fields) ==
    [package |-> sources[1][1],
     version |-> fields[W_version],
     ecosystem |-> "Npm",
     allowed_hashes |-> allowed_hashes(version, fields),
     resolved_url |-> remove_trailing_octothorpe(dict_get(fields, W_resolved)),
     transitivity |-> transitivity(mdeps, <<sources[1]>>),
     line_number |-> line_number]

found_dependency(version, mdeps, line_number, sources, fields) ==
    [package |-> sources[1][1],
     version |-> fields[W_version],
     ecosystem |-> "Npm",
     allowed_hashes |-> allowed_hashes(version, fields),
     resolved_url |-> remove_trailing_octothorpe(dict_get(fields, W_resolved)),
     transitivity |-> transitivity(mdeps, sources),
     line_number |-> line_number]

\* Variant: output.insert(0, ...) in place of output.append(...).
loop_body_prepend(version, mdeps, block, out) ==
    IF Len(block[2][1]) < 1 THEN out
    ELSE IF W_version \notin DOMAIN block[2][2] THEN out
    ELSE <<found_dependency(version, mdeps, block[1], block[2][1], block[2][2])>>
         \o out

\* Variant: no `len(sources) < 1` test; a block without sources gives a
\* record with an empty package name.
loop_body_keep_unsourced(version, mdeps, block, out) ==
    IF W_version \notin DOMAIN block[2][2] THEN out
    ELSE Append(out, found_dependency(version, mdeps, block[1],
                                      IF block[2][1] = <<>> THEN <<<<<<>>, <<>>>>>>
                                      ELSE block[2][1],
                                      block[2][2]))

\* One iteration of `for line_number, (sources, fields) in deps`.
loop_body(version, mdeps, block, out) ==
    LET sources == block[2][1]
        fields == block[2][2]
    IN  IF Len(sources) < 1 THEN out
        ELSE IF W_version \notin DOMAIN fields THEN out
        ELSE Append(out, found_dependency(version, mdeps, block[1], sources, fields))

(***************************************************************************)
(* Inputs: lockfiles built from a banner and up to MaxBlocks blocks joined *)
(* by blank lines, and a pool of manifests.                                *)
(***************************************************************************)
MaxBlocks == 3

\* Version 1 blocks: two aliases with a hash and a commit ref; the same
\* package at another constraint, quoted, with a nested list and two hashes;
\* a scoped package without version; a header that is just a colon.
Blocks1 == <<
    <<"a", "@", "^", "1", ".", "0", ".", "0", ",", " ", "a", "@", "^", "2", ".", "0", ".",
      "0", ":", "\n", " ", " ", "v", "e", "r", "s", "i", "o", "n", " ", "\"", "1", ".",
      "0", ".", "0", "\"", "\n", " ", " ", "r", "e", "s", "o", "l", "v", "e", "d", " ",
      "\"", "a", "#", "b", "#", "c", "\"", "\n", " ", " ", "i", "n", "t", "e", "g", "r",
      "i", "t", "y", " ", "s", "h", "a", "1", "-", "A", "A", "A", "A">>,
    <<"\"", "a", "@", "^", "3", "\"", ":", "\n", " ", " ", "v", "e", "r", "s", "i", "o", "n",
      " ", "\"", "3", "\"", "\n", " ", " ", "d", "e", "p", "e", "n", "d", "e", "n", "c",
      "i", "e", "s", ":", "\n", " ", " ", " ", " ", "c", " ", "\"", "^", "1", ".", "0",
      ".", "0", "\"", "\n", " ", " ", "r", "e", "s", "o", "l", "v", "e", "d", " ", "\"",
      "h", "/", "b", ".", "t", "g", "z", "\"", "\n", " ", " ", "i", "n", "t", "e", "g",
      "r", "i", "t", "y", " ", "s", "h", "a", "1", "-", "/", "w", "=", "=", " ", "s", "h",
      "a", "5", "1", "2", "-", "A", "Q", "I", "=">>,
    <<"\"", "@", "s", "/", "c", "@", "^", "1", "\"", ":", "\n", " ", " ", "r", "e", "s", "o",
      "l", "v", "e", "d", " ", "\"", "x", "#", "y", "\"">>,
    <<":", "\n", " ", " ", "v", "e", "r", "s", "i", "o", "n", " ", "\"", "1", "\"">> >>

\* Version 2 blocks: two aliases with a checksum and a commit ref; a scoped
\* package from a file with a nested list and no checksum; a package without
\* version; a header that is just two quotes.
Blocks2 == <<
    <<"\"", "a", "@", "n", "p", "m", ":", "^", "1", ".", "0", ".", "0", ",", " ", "a", "@",
      "n", "p", "m", ":", "^", "2", ".", "0", ".", "0", "\"", ":", "\n", " ", " ", "v",
      "e", "r", "s", "i", "o", "n", ":", " ", "1", ".", "0", ".", "0", "\n", " ", " ",
      "r", "e", "s", "o", "l", "v", "e", "d", ":", " ", "\"", "a", "#", "b", "#", "c",
      "\"", "\n", " ", " ", "c", "h", "e", "c", "k", "s", "u", "m", ":", " ", "a", "b",
      "c">>,
    <<"\"", "@", "s", "/", "b", "@", "f", "i", "l", "e", ":", ".", ".", "/", "x", "\"", ":",
      "\n", " ", " ", "v", "e", "r", "s", "i", "o", "n", ":", " ", "2", "\n", " ", " ",
      "d", "e", "p", "e", "n", "d", "e", "n", "c", "i", "e", "s", ":", "\n", " ", " ",
      " ", " ", "a", ":", " ", "^", "1", ".", "0", ".", "0", "\n", " ", " ", "i", "n",
      "t", "e", "g", "r", "i", "t", "y", ":", " ", "s", "h", "a", "1", "-", "A", "A", "A",
      "A">>,
    <<"\"", "c", "@", "n", "p", "m", ":", "^", "1", "\"", ":", "\n", " ", " ", "c", "h", "e",
      "c", "k", "s", "u", "m", ":", " ", "a", "b", "c">>,
    <<"\"", "\"", ":", "\n", " ", " ", "v", "e", "r", "s", "i", "o", "n", ":", " ", "1">> >>

Blank == <<"\n", "\n">>

\* The bodies of n blocks of one pool, joined by blank lines.
RECURSIVE Bodies(_, _)
Bodies(pool, n) ==
    IF n = 0 THEN {<<>>}
    ELSE IF n = 1 THEN {pool[k] : k \in 1..Len(pool)}
    ELSE {b \o Blank \o pool[k] : b \in Bodies(pool, n - 1), k \in 1..Len(pool)}

AllBodies ==
    UNION {Bodies(Blocks1, n) \cup Bodies(Blocks2, n) : n \in 0..MaxBlocks}

YARN2_METADATA == <<"\n", "_", "_", "m", "e", "t", "a", "d", "a", "t", "a", ":", "\n", " ", " ", "v", "e",
      "r", "s", "i", "o", "n", ":", " ", "6", "\n", " ", " ", "c", "a", "c", "h", "e",
      "K", "e", "y", ":", " ", "8", "\n">>

\* The version 1 banner, the same without its blank line, the version 1
\* banner and a newline, the version 2 banner and a newline, the version 2
\* banner with the metadata stanza and a newline.
Banners == {
    YARN1_PREFIX,
    SubSeq(YARN1_PREFIX, 1, Len(YARN1_PREFIX) - 1),
    YARN1_PREFIX \o <<"\n">>,
    YARN2_PREFIX \o <<"\n">>,
    YARN2_PREFIX \o YARN2_METADATA \o <<"\n">> }

Documents ==
    {banner \o body \o trail :
        banner \in Banners, body \in AllBodies, trail \in {<<>>, <<"\n">>}}

Str(t) == <<"str", t>>

Dict(items) == <<"dict", items>>

\* No path; an unparsable file; {} ; dependencies {} ; one direct
\* dependency; two; a number for a constraint; dependencies a list;
\* dependencies a string; a top-level list.
Manifests == <<
    <<"nopath">>,
    <<"unparsable">>,
    <<"json", Dict(<<>>)>>,
    <<"json", Dict(<< <<W_dependencies, Dict(<<>>)>> >>)>>,
    <<"json", Dict(<< <<W_dependencies, Dict(<< <<<<"a">>, Str(<<"^", "2", ".", "0", ".", "0">>)>> >>)>> >>)>>,
    <<"json", Dict(<< <<W_dependencies,
                        Dict(<< <<<<"a">>, Str(<<"^", "9", ".", "9", ".", "9">>)>>,
                                <<<<"@", "s", "/", "b">>, Str(<<"f", "i", "l", "e", ":", ".", ".", "/", "x">>)>> >>)>> >>)>>,
    <<"json", Dict(<< <<W_dependencies, Dict(<< <<<<"a">>, <<"num", 3>>>> >>)>> >>)>>,
    <<"json", Dict(<< <<W_dependencies, <<"list", <<Str(<<"a">>)>>>>>> >>)>>,
    <<"json", Dict(<< <<W_dependencies, Str(<<"a">>)>> >>)>>,
    <<"json", <<"list", <<Str(<<"a">>)>>>>>> >>

(***************************************************************************)
(* parse_yarn as a state machine.                                          *)
(***************************************************************************)
GrammarIdle ==
    /\ g_kind = "none"
    /\ g_dialect = 0
    /\ g_input = <<>>
    /\ g_text = <<>>
    /\ g_result = <<>>

Init ==
    /\ lockfile_text \in Documents
    /\ \E m \in 1..Len(Manifests) : manifest = Manifests[m]
    /\ pc = "start"
    /\ manifest_deps = None
    /\ yarn_version = 0
    /\ tried = {}
    /\ parse_failed = FALSE
    /\ deps = None
    /\ idx = 0
    /\ output = <<>>
    /\ GrammarIdle

\* manifest_deps = get_manifest_deps(manifest_path)
ReadManifest ==
    /\ pc = "start"
    /\ LET r == get_manifest_deps(manifest)
       IN  /\ pc' = IF r.raised THEN "raised" ELSE "dispatch"
           /\ manifest_deps' = r.val
    /\ UNCHANGED <<lockfile_text, manifest, yarn_version, tried, parse_failed,
                   deps, idx, output>>
    /\ UNCHANGED grammar_vars

\* yarn_version, parser and parser_name are chosen from the banner
Dispatch ==
    /\ pc = "dispatch"
    /\ yarn_version' = choose_version(lockfile_text)
    /\ pc' = "parse"
    /\ UNCHANGED <<lockfile_text, manifest, manifest_deps, tried, parse_failed,
                   deps, idx, output>>
    /\ UNCHANGED grammar_vars

\* deps = safe_path_parse(...); if not deps: return []
Parse ==
    /\ pc = "parse"
    /\ deps' = parsed_deps(yarn_version, lockfile_text)
    /\ pc' = IF Falsy(deps') THEN "done" ELSE "loop"
    /\ idx' = IF Falsy(deps') THEN 0 ELSE 1
    /\ tried' = tried \cup {yarn_version}
    /\ parse_failed' = (safe_path_parse(yarn_version, lockfile_text) = None)
    /\ UNCHANGED <<lockfile_text, manifest, manifest_deps, yarn_version, output>>
    /\ UNCHANGED grammar_vars

\* for line_number, (sources, fields) in deps: ...
LoopStep ==
    /\ pc = "loop"
    /\ idx <= Len(deps[1])
    /\ output' = loop_body(yarn_version, manifest_deps, deps[1][idx], output)
    /\ idx' = idx + 1
    /\ UNCHANGED <<lockfile_text, manifest, pc, manifest_deps, yarn_version,
                   tried, parse_failed, deps>>
    /\ UNCHANGED grammar_vars

\* return output
Return ==
    /\ pc = "loop"
    /\ idx > Len(deps[1])
    /\ pc' = "done"
    /\ UNCHANGED <<lockfile_text, manifest, manifest_deps, yarn_version, tried,
                   parse_failed, deps, idx, output>>
    /\ UNCHANGED grammar_vars

Next == ReadManifest \/ Dispatch \/ Parse \/ LoopStep \/ Return

Spec == Init /\ [][Next]_vars

(***************************************************************************)
(* The block and key/value grammars applied to single inputs.  A block     *)
(* input is a list of <<name, constraint>> as written; a line input is     *)
(* [indent, key, value, nested].                                           *)
(***************************************************************************)
MaxSources == 2

MaxIndent == 3

SourceNames == {<<"a">>, <<"@", "s", "/", "b">>}

SourceConstraints == {
    <<"^", "1", ".", "0", ".", "0">>, <<"n", "p", "m", ":", "^", "1", ".", "0", ".", "0">>, <<"n", "p", "m", ":", "n", "p", "m", ":", "1">>, <<"f", "i", "l", "e", ":", ".", ".", "/", "x">>,
    <<"p", "a", "t", "c", "h", ":", "r", "@", "^", "1", "#", "~", "b">>, <<"h", "t", "t", "p", "s", ":", "/", "/", "h", "/", "x", "#", "y">> }

SourceLists ==
    UNION {[1..n -> SourceNames \X SourceConstraints] : n \in 1..MaxSources}

LineKeys == {<<"v", "e", "r", "s", "i", "o", "n">>, <<"\"", "b", "i", "n", "\"">>}

LineValues == {
    <<"1", ".", "0">>, <<"\"", "1", ".", "0", "\"">>, <<"\"", "\"", "x", "\"", "\"">>, <<"\"", "x">>, <<"x", "\"", "y">>, <<"\"", "@", "a", "/", "b", "@", "n", "p", "m", ":", "1", "\"">> }

LineInputs ==
    [indent : 0..MaxIndent, key : LineKeys, value : LineValues, nested : BOOLEAN]

RECURSIVE Spaces(_)
Spaces(n) == IF n = 0 THEN <<>> ELSE <<" ">> \o Spaces(n - 1)

\* name@constraint, name@constraint, ...
RECURSIVE RenderSources(_, _)
RenderSources(srcs, wrap) ==
    IF srcs = <<>> THEN <<>>
    ELSE wrap \o srcs[1][1] \o <<"@">> \o srcs[1][2] \o wrap
         \o (IF Len(srcs) = 1 THEN <<>> ELSE <<",", " ">>)
         \o RenderSources(Tail(srcs), wrap)

\* A block with the given sources and a version field, as each version of
\* yarn writes it: each source quoted (1), the whole list quoted (2).
RenderBlock(d, srcs) ==
    IF d = 1
    THEN RenderSources(srcs, <<"\"">>) \o <<":", "\n", " ", " ", "v", "e", "r", "s", "i", "o", "n", " ", "\"", "1", "\"", "\n">>
    ELSE <<"\"">> \o RenderSources(srcs, <<>>) \o <<"\"", ":", "\n", " ", " ", "v", "e", "r", "s", "i", "o", "n", ":", " ", "1", "\n">>

\* A field line: `key value` or `key:` (1), `key: value` or `key:` (2).
RenderLine(d, l) ==
    Spaces(l.indent) \o l.key
    \o (IF d = 2 \/ l.nested THEN <<":">> ELSE <<>>)
    \o (IF l.nested THEN <<>> ELSE <<" ">> \o l.value)
    \o <<"\n">>

\* The lines under a block header: 0 to 3 leading spaces, a field with one
\* of two values for the same key or a nested sub-block header.
MaxLines == 3

BodyIndents == {0, 1, 2, 3}

BodyValues == {<<"1", ".", "0">>, <<"\"", "2", "\"">>}

BodyLines ==
    [indent : BodyIndents, key : {<<"v", "e", "r", "s", "i", "o", "n">>}, value : BodyValues, nested : BOOLEAN]

BodyInputs == UNION {[1..n -> BodyLines] : n \in 1..MaxLines}

RECURSIVE RenderLines(_, _)
RenderLines(d, ls) ==
    IF ls = <<>> THEN <<>> ELSE RenderLine(d, ls[1]) \o RenderLines(d, Tail(ls))

\* A one-source header followed by the given lines.
RenderBody(d, ls) ==
    (IF d = 1 THEN <<"\"", "a", "@", "^", "1", ".", "0", ".", "0", "\"", ":", "\n">> ELSE <<"\"", "a", "@", "n", "p", "m", ":", "^", "1", ".", "0", ".", "0", "\"", ":", "\n">>) \o RenderLines(d, ls)

MainIdle ==
    /\ lockfile_text = <<>>
    /\ manifest = <<"nopath">>
    /\ pc = "idle"
    /\ manifest_deps = None
    /\ yarn_version = 0
    /\ tried = {}
    /\ parse_failed = FALSE
    /\ deps = None
    /\ idx = 0
    /\ output = <<>>

InitGrammar ==
    /\ MainIdle
    /\ g_dialect \in {1, 2}
    /\ \/ g_kind = "block" /\ g_input \in SourceLists
          /\ g_text = RenderBlock(g_dialect, g_input)
       \/ g_kind = "line" /\ g_input \in LineInputs
          /\ g_text = RenderLine(g_dialect, g_input)
       \/ g_kind = "body" /\ g_input \in BodyInputs
          /\ g_text = RenderBody(g_dialect, g_input)
    /\ g_result = <<>>

\* yarn_dep1 / yarn_dep2 at the start of the text
ApplyYarnDep ==
    /\ g_kind = "block"
    /\ g_result = <<>>
    /\ g_result' = Some(IF g_dialect = 1 THEN yarn_dep1(g_text, 1)
                        ELSE yarn_dep2(g_text, 1))
    /\ UNCHANGED <<g_kind, g_dialect, g_input, g_text>>
    /\ UNCHANGED main_vars

\* key_value1 / key_value2 at the start of the text
ApplyKeyValue ==
    /\ g_kind = "line"
    /\ g_result = <<>>
    /\ g_result' = Some(IF g_dialect = 1 THEN key_value1(g_text, 1)
                        ELSE key_value2(g_text, 1))
    /\ UNCHANGED <<g_kind, g_dialect, g_input, g_text>>
    /\ UNCHANGED main_vars

\* yarn_dep1 / yarn_dep2 on a header with several lines under it
ApplyYarnDepBody ==
    /\ g_kind = "body"
    /\ g_result = <<>>
    /\ g_result' = Some(IF g_dialect = 1 THEN yarn_dep1(g_text, 1)
                        ELSE yarn_dep2(g_text, 1))
    /\ UNCHANGED <<g_kind, g_dialect, g_input, g_text>>
    /\ UNCHANGED main_vars

NextGrammar == ApplyYarnDep \/ ApplyKeyValue \/ ApplyYarnDepBody

SpecGrammar == InitGrammar /\ [][NextGrammar]_vars

(***************************************************************************)
(* Properties of parse_yarn (specification Spec).                          *)
(***************************************************************************)
Blocks == IF deps = None THEN <<>> ELSE deps[1]

Sources(b) == b[2][1]

Fields(b) == b[2][2]

\* The parsed block that starts on the given line.
BlockAt(line) == CHOOSE b \in Range(Blocks) : b[1] = line

BlockOf(rec) == BlockAt(rec.line_number)

Records == Range(output)

Convertible(b) == Len(Sources(b)) >= 1 /\ W_version \in DOMAIN Fields(b)

InManifest(b) == {k \in 1..Len(Sources(b)) : Sources(b)[k] \in manifest_deps[1]}

\* C1: every record's transitivity is Unknown when the manifest set is None,
\* otherwise Direct when any source of its block, first or later, is in the
\* manifest set, otherwise Transitive; each block is classified on its own.
C1_TransitivityFromAllSources ==
    \A rec \in Records :
        rec.transitivity =
            IF manifest_deps = None THEN "Unknown"
            ELSE IF InManifest(BlockOf(rec)) # {} THEN "Direct"
            ELSE "Transitive"

\* Two records of one package, one Direct through its second source only,
\* the other Transitive.
C1_Witness ==
    /\ pc = "done"
    /\ \E r1, r2 \in Records :
        /\ r1.package = r2.package
        /\ r1.transitivity = "Direct"
        /\ 1 \notin InManifest(BlockOf(r1))
        /\ r2.transitivity = "Transitive"

\* C2: after a successful parse the output is, in order, one record for each
\* parsed block that has a source and a version, with the block's line, its
\* first source's name and its version field; other blocks give nothing.
C2_OutputIsTheConvertibleBlocks ==
    (pc = "done" /\ deps # None) =>
        LET kept == SelectSeq(deps[1], Convertible)
        IN  /\ Len(output) = Len(kept)
            /\ \A n \in 1..Len(kept) :
                /\ output[n].line_number = kept[n][1]
                /\ output[n].package = Sources(kept[n])[1][1]
                /\ output[n].version = Fields(kept[n])[W_version]

\* A block without version between two blocks that are kept.
C2_Witness ==
    /\ pc = "done"
    /\ Len(Blocks) = 3
    /\ Convertible(Blocks[1])
    /\ Sources(Blocks[2]) # <<>> /\ ~Convertible(Blocks[2])
    /\ Convertible(Blocks[3])
    /\ Len(output) = 2
    /\ output[1].line_number < output[2].line_number

\* C3: when the chosen grammar fails on the text, parse_yarn returns the
\* empty list and raises nothing, whatever was read before the failure.
C3_FailedParseGivesEmptyList ==
    parse_failed => (pc = "done" /\ output = <<>>)

\* The version 1 grammar read a convertible block and then failed.
C3_Witness ==
    /\ pc = "done"
    /\ parse_failed
    /\ yarn_version = 1
    /\ \E b \in Range(yarn1(lockfile_text, 1).val) : Convertible(b)

\* C4: the version is 1 exactly when the text starts with YARN1_PREFIX; only
\* the chosen grammar is run; version 1 records take their hashes from
\* `integrity`, all others from `checksum`.
C4_DispatchOnBannerOnly ==
    /\ yarn_version # 0 =>
        yarn_version = (IF StartsWith(lockfile_text, YARN1_PREFIX) THEN 1 ELSE 2)
    /\ tried \subseteq {yarn_version}
    /\ \A rec \in Records :
        rec.allowed_hashes =
            IF StartsWith(lockfile_text, YARN1_PREFIX)
            THEN extract_npm_lockfile_hash(dict_get(Fields(BlockOf(rec)), W_integrity))
            ELSE IF W_checksum \in DOMAIN Fields(BlockOf(rec))
                    /\ Fields(BlockOf(rec))[W_checksum] # <<>>
                 THEN [a \in {W_sha512} |-> <<Fields(BlockOf(rec))[W_checksum]>>]
                 ELSE EmptyDict

\* A version 1 body under a banner that lacks its blank line went to the
\* version 2 grammar alone.
C4_Witness ==
    /\ pc = "done"
    /\ yarn_version = 2
    /\ tried = {2}
    /\ StartsWith(lockfile_text,
                  SubSeq(YARN1_PREFIX, 1, Len(YARN1_PREFIX) - 1) \o Blocks1[1])

LastIndexOf(v, c) == Max({j \in 1..Len(v) : v[j] = c})

\* C6: resolved_url is the `resolved` field cut before its last '#', the
\* field itself when it has no '#', and None when the field is absent.
C6_ResolvedUrlCutAtLastOctothorpe ==
    \A rec \in Records :
        rec.resolved_url =
            IF W_resolved \notin DOMAIN Fields(BlockOf(rec)) THEN None
            ELSE IF "#" \notin Range(Fields(BlockOf(rec))[W_resolved])
                 THEN Some(Fields(BlockOf(rec))[W_resolved])
                 ELSE Some(SubSeq(Fields(BlockOf(rec))[W_resolved], 1,
                                  LastIndexOf(Fields(BlockOf(rec))[W_resolved], "#") - 1))

\* One record from "a#b#c" giving "a#b", another from a value without '#'.
C6_Witness ==
    /\ pc = "done"
    /\ \E r1, r2 \in Records :
        /\ W_resolved \in DOMAIN Fields(BlockOf(r1))
        /\ Fields(BlockOf(r1))[W_resolved] = <<"a", "#", "b", "#", "c">>
        /\ r1.resolved_url = Some(<<"a", "#", "b">>)
        /\ W_resolved \in DOMAIN Fields(BlockOf(r2))
        /\ r2.resolved_url = Some(Fields(BlockOf(r2))[W_resolved])

NoManifestData == manifest[1] \in {"nopath", "unparsable"}

NoDependenciesSection ==
    /\ manifest[1] = "json"
    /\ manifest[2][1] = "dict"
    /\ json_get(manifest[2][2], W_dependencies) = None

\* C7: without a manifest path or a parsable manifest, manifest_deps is None
\* and every record is Unknown; with a manifest that has no dependencies
\* section it is the empty set and every record is Transitive; neither
\* raises.
C7_UnknownVersusEmpty ==
    pc # "start" =>
        /\ NoManifestData =>
            /\ pc # "raised"
            /\ manifest_deps = None
            /\ \A rec \in Records : rec.transitivity = "Unknown"
        /\ NoDependenciesSection =>
            /\ pc # "raised"
            /\ manifest_deps = Some({})
            /\ \A rec \in Records : rec.transitivity = "Transitive"

\* Records were emitted against a manifest without dependencies section.
C7_Witness ==
    /\ pc = "done"
    /\ NoDependenciesSection
    /\ manifest_deps = Some({})
    /\ Len(output) >= 2

\* The manifest is a top-level object whose dependencies, if any, is an
\* object mapping names to strings.
WellShaped(j) ==
    /\ j[1] = "dict"
    /\ \A k \in 1..Len(j[2]) :
        j[2][k][1] = W_dependencies =>
            /\ j[2][k][2][1] = "dict"
            /\ \A n \in 1..Len(j[2][k][2][2]) : j[2][k][2][2][n][2][1] = "str"

\* C8: a manifest that parses as JSON but has another shape gives no direct
\* dependency and raises no error.
C8_OtherShapesRaiseNothing ==
    (manifest[1] = "json" /\ ~WellShaped(manifest[2])) =>
        /\ pc # "raised"
        /\ \A rec \in Records : rec.transitivity # "Direct"

\* C9 as stated: no parsed block has an empty source list.
C9_NoBlockWithoutSources ==
    \A k \in 1..Len(Blocks) : Len(Sources(Blocks[k])) >= 1

\* C9 amended: a block may parse with an empty source list; no record is
\* made from such a block.
C9_UnsourcedBlocksGiveNoRecord ==
    \A rec \in Records :
        /\ \E b \in Range(Blocks) : b[1] = rec.line_number
        /\ Sources(BlockOf(rec)) # <<>>
        /\ rec.package # <<>>

\* A header without sources (`:` in dialect A, `""` in dialect B) was parsed
\* into a block with a version and gave no record, next to a block that did.
C9_Witness ==
    /\ pc = "done"
    /\ \E b \in Range(Blocks) :
        /\ Sources(b) = <<>>
        /\ W_version \in DOMAIN Fields(b)
        /\ \A rec \in Records : rec.line_number # b[1]
    /\ Len(output) >= 1

(***************************************************************************)
(* Properties of the grammars (specification SpecGrammar).                 *)
(***************************************************************************)
Applied(kind, d) == g_kind = kind /\ g_dialect = d /\ g_result # <<>>

NpmTag == <<"n", "p", "m", ":">>

\* C5 as stated: no constraint read by source2 still starts with npm:.
C5_NoConstraintStartsWithNpm ==
    Applied("block", 2) =>
        /\ g_result[1].ok
        /\ \A k \in 1..Len(g_result[1].val[2][1]) :
            ~StartsWith(g_result[1].val[2][1][k][2], NpmTag)

\* C5 amended: each constraint read by source2 is the written one without
\* its first four characters when it starts with npm:, and the written one
\* otherwise; the names are the written ones.
C5_OneNpmTagRemoved ==
    Applied("block", 2) =>
        /\ g_result[1].ok
        /\ Len(g_result[1].val[2][1]) = Len(g_input)
        /\ \A k \in 1..Len(g_input) :
            /\ g_result[1].val[2][1][k][1] = g_input[k][1]
            /\ StartsWith(g_input[k][2], NpmTag) =>
                NpmTag \o g_result[1].val[2][1][k][2] = g_input[k][2]
            /\ ~StartsWith(g_input[k][2], NpmTag) =>
                g_result[1].val[2][1][k][2] = g_input[k][2]

\* An npm: constraint and a file: constraint in one header.
C5_Witness ==
    /\ Applied("block", 2)
    /\ Len(g_input) = 2
    /\ g_input[1][2] = <<"n", "p", "m", ":", "^", "1", ".", "0", ".", "0">>
    /\ g_result[1].val[2][1][1][2] = <<"^", "1", ".", "0", ".", "0">>
    /\ g_input[2][2] = <<"f", "i", "l", "e", ":", ".", ".", "/", "x">>
    /\ g_result[1].val[2][1][2][2] = <<"f", "i", "l", "e", ":", ".", ".", "/", "x">>

\* One layer of surrounding double quotes removed, if there is one.
OneLayerOff(v) ==
    IF Len(v) >= 2 /\ v[1] = "\"" /\ v[Len(v)] = "\""
    THEN SubSeq(v, 2, Len(v) - 1)
    ELSE v

FieldLine(d) ==
    Applied("line", d) /\ g_input.indent = 2 /\ ~g_input.nested

\* C10 as stated: key and value each lose exactly one layer of quotes.
C10_OneLayerOffKeyAndValue ==
    \A d \in {1, 2} :
        FieldLine(d) =>
            /\ g_result[1].ok
            /\ g_result[1].val = <<OneLayerOff(g_input.key), OneLayerOff(g_input.value)>>

AllQuotes(v) == \A j \in 1..Len(v) : v[j] = "\""

\* w is v without a run of quotes at its start and one at its end, and no
\* quote is left at either end of w.
StrippedOf(v, w) ==
    /\ \E a, b \in 0..Len(v) :
        /\ a + b <= Len(v)
        /\ AllQuotes(SubSeq(v, 1, a))
        /\ AllQuotes(SubSeq(v, Len(v) - b + 1, Len(v)))
        /\ w = SubSeq(v, a + 1, Len(v) - b)
    /\ w # <<>> => (w[1] # "\"" /\ w[Len(w)] # "\"")

\* C10 amended: the key is returned as written, quotes included; the value
\* is returned without any of its leading and trailing double quotes.
C10_KeyVerbatimValueStripped ==
    \A d \in {1, 2} :
        FieldLine(d) =>
            /\ g_result[1].ok
            /\ g_result[1].val[1] = g_input.key
            /\ StrippedOf(g_input.value, g_result[1].val[2])

\* A quoted key with a doubly quoted value, in both grammars' results.
C10_Witness ==
    /\ \E d \in {1, 2} : FieldLine(d)
    /\ g_input.key = <<"\"", "b", "i", "n", "\"">>
    /\ g_input.value = <<"\"", "\"", "x", "\"", "\"">>
    /\ g_result[1].val = <<<<"\"", "b", "i", "n", "\"">>, <<"x">>>>

\* The lines of the input that are fields: two leading spaces and a value.
FieldLines == {k \in 1..Len(g_input) : g_input[k].indent = 2 /\ ~g_input[k].nested}

LinesOf(key) == {k \in FieldLines : g_input[k].key = key}

\* C11: a block's fields map has exactly the keys of its lines with two
\* leading spaces and a value on the line, each with the value of the last
\* such line (quotes stripped); lines with 0, 1 or 3 and more leading spaces
\* and nested sub-block headers give no entry and are read past, so what
\* stands under a nested header never shows in fields.
C11_FieldsFromTwoSpaceValueLines ==
    \A d \in {1, 2} :
        Applied("body", d) =>
            /\ g_result[1].ok
            /\ g_result[1].pos = Len(g_text)
            /\ DOMAIN g_result[1].val[2][2] = {g_input[k].key : k \in FieldLines}
            /\ \A key \in DOMAIN g_result[1].val[2][2] :
                StrippedOf(g_input[Max(LinesOf(key))].value, g_result[1].val[2][2][key])

\* A field, then a nested header with a deeper line under it carrying
\* another value for the same key; and the same key given twice.
C11_Witness ==
    /\ \E d \in {1, 2} : Applied("body", d)
    /\ Len(g_input) = 3
    /\ \/ /\ g_input[1] = [indent |-> 2, key |-> <<"v", "e", "r", "s", "i", "o", "n">>, value |-> <<"1", ".", "0">>, nested |-> FALSE]
          /\ g_input[2] = [indent |-> 2, key |-> <<"v", "e", "r", "s", "i", "o", "n">>, value |-> <<"1", ".", "0">>, nested |-> TRUE]
          /\ g_input[3] = [indent |-> 3, key |-> <<"v", "e", "r", "s", "i", "o", "n">>, value |-> <<"\"", "2", "\"">>, nested |-> FALSE]
          /\ g_result[1].val[2][2] = [key \in {<<"v", "e", "r", "s", "i", "o", "n">>} |-> <<"1", ".", "0">>]
       \/ /\ g_input[1] = [indent |-> 2, key |-> <<"v", "e", "r", "s", "i", "o", "n">>, value |-> <<"1", ".", "0">>, nested |-> FALSE]
          /\ g_input[2] = [indent |-> 0, key |-> <<"v", "e", "r", "s", "i", "o", "n">>, value |-> <<"1", ".", "0">>, nested |-> FALSE]
          /\ g_input[3] = [indent |-> 2, key |-> <<"v", "e", "r", "s", "i", "o", "n">>, value |-> <<"\"", "2", "\"">>, nested |-> FALSE]
          /\ g_result[1].val[2][2] = [key \in {<<"v", "e", "r", "s", "i", "o", "n">>} |-> <<"2">>]

====
